---- MODULE Spec2Model ----
(***************************************************************************)
(* Call-session state machine of src/src/controllers/call.controller.js    *)
(* (handleWebSocketConnection) together with the outbound helpers of       *)
(* src/src/services/retell.service.js.                                     *)
(*                                                                         *)
(* One session (one WebSocket connection) is modelled.  Every action is    *)
(* the code that runs between two suspension points (await) of one async   *)
(* function: JavaScript runs such a segment to completion, so it is        *)
(* atomic.  Texts are sequences of atoms (words or characters); a message  *)
(* content is either a string or a non-string value (content blocks).      *)
(***************************************************************************)
EXTENDS Integers, Sequences, FiniteSets, TLC

\* ------------------------------------------------------------------ bounds
MaxTurns == 2        \* response_required events of the session
MaxVideos == 1       \* transcripts returned by the context lookup
MaxEvents == 1       \* inbound events other than response_required
PollStep == 5000     \* ms between two polls of the wait loop (a timer may fire late)

\* ------------------------------------------------------- program constants
maxWait == 10000     \* call.controller.js:216
pollInterval == 100  \* call.controller.js:219

Turns == 1..MaxTurns

\* ------------------------------------------------------------ text helpers
StartsWith(s, p) == Len(s) >= Len(p) /\ SubSeq(s, 1, Len(p)) = p

\* index of the first occurrence of atom a in s at or after position i, 0 if none
RECURSIVE IndexFrom(_, _, _)
IndexFrom(s, a, i) ==
  IF i > Len(s) THEN 0
  ELSE IF s[i] = a THEN i
  ELSE IndexFrom(s, a, i + 1)

\* String.prototype.split(':'): the segments between the separators
RECURSIVE Split(_, _)
Split(s, sep) ==
  LET k == IndexFrom(s, sep, 1)
  IN IF k = 0 THEN <<s>>
     ELSE <<SubSeq(s, 1, k - 1)>> \o Split(SubSeq(s, k + 1, Len(s)), sep)

\* index of the first occurrence of the sub-sequence p in s at or after i, 0 if none
RECURSIVE FindFrom(_, _, _)
FindFrom(s, p, i) ==
  IF i + Len(p) - 1 > Len(s) THEN 0
  ELSE IF SubSeq(s, i, i + Len(p) - 1) = p THEN i
  ELSE FindFrom(s, p, i + 1)

\* String.prototype.replace(p, r) with a string pattern: first occurrence only
ReplaceFirst(s, p, r) ==
  LET k == FindFrom(s, p, 1)
  IN IF k = 0 THEN s
     ELSE SubSeq(s, 1, k - 1) \o r \o SubSeq(s, k + Len(p), Len(s))

\* --------------------------------------------------------- message contents
\* A content is a string (isString) or a non-string value; text holds the
\* atoms of the string, or of the value's inner text.
Str(t) == [isString |-> TRUE, text |-> t]
NonStr(t) == [isString |-> FALSE, text |-> t]

\* JSON.stringify of a content that is not a string: a bracketed text
JsonStringify(c) == <<"[">> \o c.text \o <<"]">>

\* the string a content becomes under JavaScript's + with a string
JsToString(c) == IF c.isString THEN c.text ELSE <<"[object Object]">>

HumanMessage(c, t) == [role |-> "human", content |-> c, turn |-> t]
AIMessage(c, t) == [role |-> "ai", content |-> c, turn |-> t]
ToolMessage(c, t) == [role |-> "tool", content |-> c, turn |-> t]

\* ---------------------------------------------------------- phone numbers
Digits == {"0", "1", "2", "3", "4", "5", "6", "7", "8", "9"}
IsDigit(a) == a \in Digits

\* /^\+[1-9]\d{1,14}$/
validateE164(n) ==
  /\ Len(n) >= 3
  /\ Len(n) <= 16
  /\ n[1] = "+"
  /\ n[2] \in Digits \ {"0"}
  /\ \A i \in 3..Len(n) : n[i] \in Digits

formatToE164(n) ==
  LET digits == SelectSeq(n, IsDigit)
  IN IF Len(digits) = 10 THEN <<"+", "1">> \o digits
     ELSE IF Len(digits) = 11 /\ digits[1] = "1" THEN <<"+">> \o digits
     ELSE IF StartsWith(n, <<"+">>) THEN n
     ELSE <<"+", "1">> \o digits

\* ------------------------------------------------------------------- state
VARIABLES
  agent,              \* 0 = null, else the number of the build that produced it
  agentInitialized,
  agentInitializing,
  greetingSent,
  transferInProgress,
  emergencyDetected,
  emergencyReason,    \* <<>> = null
  recordingUrl,       \* "null" or a url
  userPhoneNumber,    \* "null" or a number
  transcriptsData,    \* [isNull, ids]
  conversationState,  \* [messages, transcriptIds, hasVideo]
  wsState,            \* "OPEN" or "CLOSED" (ws.readyState)
  out,                \* payloads handed to ws.send, in order
  run,                \* the call of fetchCallDetailsAndInitialize made at line 180
  turn,               \* the response_required handler invocations
  started,            \* turns in the order their handlers started
  alerts,             \* sendEmergencyAlert calls started, in order, each with
                      \* the payloads sent before it (outLen) and whether its
                      \* promise has settled
  builds,             \* [calls, done]: createAgent calls made / returned
  flips,              \* times agentInitialized went false -> true
  events,             \* inbound events other than response_required handled
  closed,             \* the close handler has run
  toolContext,        \* the fields the module-level tool objects carry
                      \* (langgraph-tools.service.js), shared by every session
  reports             \* calls of the session-end reporter by this session

vars == <<agent, agentInitialized, agentInitializing, greetingSent,
          transferInProgress, emergencyDetected, emergencyReason, recordingUrl,
          userPhoneNumber, transcriptsData, conversationState, wsState, out,
          run, turn, started, alerts, builds, flips, events, closed, toolContext, reports>>

sessionVars == <<agent, agentInitialized, agentInitializing, greetingSent,
                 transferInProgress, emergencyDetected, emergencyReason,
                 recordingUrl, userPhoneNumber, transcriptsData,
                 conversationState>>

messages == conversationState.messages

\* ------------------------------------------------------- external answers
Phone == "+15551230000"
NullT == [isNull |-> TRUE, ids |-> <<>>]
Transcripts(n) == [isNull |-> FALSE, ids |-> [i \in 1..n |-> i]]

\* ------------------------------------------------- tools of the engine
CallId == "call_A"

\* the tool objects before any session has bound them
NoContext == [transcriptIds |-> <<>>, phoneNumber |-> "null", currentCallId |-> "null"]

\* createToolsWithContext: the fields it assigns on the exported tool objects
\* (fetchVideoFramesTool, getAvailableTimestampsTool,
\* retrievePreviousWorkOrderTool), from their values ctx; null is <<>> or "null".
createToolsWithContext(ctx, transcriptIds, phoneNumber, currentCallId) ==
  [transcriptIds |-> IF Len(transcriptIds) > 0 THEN transcriptIds ELSE ctx.transcriptIds,
   phoneNumber |-> IF phoneNumber # "null" THEN phoneNumber ELSE ctx.phoneNumber,
   currentCallId |-> IF phoneNumber # "null" THEN currentCallId ELSE ctx.currentCallId]

\* ------------------------------------------------------ outbound payloads
\* kind and turn are bookkeeping of the model (which handler sent the payload
\* and why); the other fields are the JSON the code writes.
Payload(kind, t, rid, content) ==
  [kind |-> kind, turn |-> t, response_type |-> "response", response_id |-> rid,
   content |-> content, content_complete |-> TRUE, end_call |-> FALSE,
   has_transfer |-> FALSE, transfer_number |-> <<>>, config |-> {}]

ApologyText == <<"I'm sorry, I encountered a technical issue. Could you please repeat that?">>
HoldingText == <<"The transfer is in progress. Please stay on the line.">>
DefaultTransferText == <<"I'm transferring you to our emergency support team now. Please stay on the line.">>

\* sendResponse: ws.send of the payload, then logger.debug evaluates
\* content.substring(0, 50), which throws when content is not a string.
sendResponse(o, kind, t, content, rid) ==
  [out |-> Append(o, Payload(kind, t, rid, content)),
   threw |-> ~content.isString]

\* sendErrorResponse: the payload with the fixed apology; its own try/catch
\* keeps it from throwing.
sendErrorResponse(o, t, rid) ==
  Append(o, Payload("error", t, rid, Str(ApologyText)))

\* the readyState check left out
SocketOpen_Unchecked(ws) == TRUE

\* line 124 of retell.service.js: ws && ws.readyState === 1
SocketOpen(ws) == ws = "OPEN"

\* the transfer payload asking for the call to be ended
TransferPayload_EndCall(t, rid, number, finalMessage) ==
  [Payload("transfer", t, rid, finalMessage)
   EXCEPT !.has_transfer = TRUE, !.transfer_number = number, !.end_call = TRUE]

\* the transfer payload without its transfer_number
TransferPayload_NoNumber(t, rid, number, finalMessage) ==
  Payload("transfer", t, rid, finalMessage)

\* lines 143-150 of retell.service.js: the payload with transfer_number
TransferPayload(t, rid, number, finalMessage) ==
  [Payload("transfer", t, rid, finalMessage)
   EXCEPT !.has_transfer = TRUE, !.transfer_number = number]

\* sendDirectTransfer: throws when the socket is not open, else sends the
\* payload with transfer_number (formatted when it is not E.164).
sendDirectTransfer(o, ws, t, rid, phoneNumber, message) ==
  IF ~SocketOpen(ws) THEN [out |-> o, threw |-> TRUE]
  ELSE LET number == IF validateE164(phoneNumber) THEN phoneNumber
                     ELSE formatToE164(phoneNumber)
           \* message || defaultMessage: an empty string is falsy
           finalMessage == IF message.isString /\ message.text = <<>>
                           THEN Str(DefaultTransferText) ELSE message
       IN [out |-> Append(o, TransferPayload(t, rid, number, finalMessage)),
           threw |-> FALSE]

\* the background failure answered with an apology on the connection
AlertFailed_ErrorReply(o) == sendErrorResponse(o, 0, 0)

\* line 372 of call.controller.js: the .catch of the background alert only logs
AlertFailed(o) == o

\* unshift in the place of push
Push_Front(msgs, m) == <<m>> \o msgs

\* conversationState.messages.push(m) (lines 105, 251, 331, 356, 379)
Push(msgs, m) == Append(msgs, m)

\* the flag is left as it was
SetTransferFlag_Forgotten(tip) == tip

\* line 309: transferInProgress = true, from its value tip
SetTransferFlag(tip) == TRUE

\* the loop without its time limit
LoopContinues_NoTimeout(ready, elapsed) == ~ready

\* line 218: the condition of the wait loop
LoopContinues(ready, elapsed) == ~ready /\ elapsed < maxWait

\* the readiness check left out
NotInitialized_Skipped(ready) == FALSE

\* lines 222 and 229: if (!agentInitialized), before the engine is used
NotInitialized(ready) == ~ready

\* --------------------------------------------------------------- greeting
generateFirstMessage(videoCount) ==
  IF videoCount > 1
    THEN <<"Hello!", "welcome to Home Maintenance Support. Are you calling about a previous work order, or is this a new work order?">>
  ELSE IF videoCount = 1
    THEN <<"Hello!", "welcome to Home Maintenance Support. Are you calling about a previous work order, or is this a new work order?">>
  ELSE <<"Hello,", "welcome to Home Maintenance Support. Are you calling about a previous work order, or is this a new work order?">>

\* the greeting is sent whether or not it was sent before
sendFirstGreeting_Again(ready, sent, td, o, msgs) ==
  LET firstMessage == Str(generateFirstMessage(0))
  IN [out |-> Append(o, Payload("greeting", 0, 0, firstMessage)),
      messages |-> Append(msgs, AIMessage(firstMessage, 0)),
      greetingSent |-> TRUE]

\* a call made after the greeting was sent clears the latch
sendFirstGreeting_Unlatch(ready, sent, td, o, msgs) ==
  IF ~ready \/ sent THEN [out |-> o, messages |-> msgs, greetingSent |-> FALSE]
  ELSE LET firstMessage == Str(generateFirstMessage(IF td.isNull THEN 0 ELSE Len(td.ids)))
       IN [out |-> Append(o, Payload("greeting", 0, 0, firstMessage)),
           messages |-> Append(msgs, AIMessage(firstMessage, 0)),
           greetingSent |-> TRUE]

\* the greeting is recorded and latched but never handed to ws.send
sendFirstGreeting_NotSent(ready, sent, td, o, msgs) ==
  IF ~ready \/ sent THEN [out |-> o, messages |-> msgs, greetingSent |-> sent]
  ELSE [out |-> o,
        messages |-> Push(msgs, AIMessage(Str(generateFirstMessage(0)), 0)),
        greetingSent |-> TRUE]

\* sendFirstGreeting on the state (ready, sent, td, o, msgs): the new out,
\* messages and greetingSent.
sendFirstGreeting(ready, sent, td, o, msgs) ==
  IF ~ready THEN [out |-> o, messages |-> msgs, greetingSent |-> sent]
  ELSE IF sent THEN [out |-> o, messages |-> msgs, greetingSent |-> sent]
  ELSE LET videoCount == IF td.isNull THEN 0 ELSE Len(td.ids)
           firstMessage == Str(generateFirstMessage(videoCount))
       IN [out |-> sendResponse(o, "greeting", 0, firstMessage, 0).out,
           messages |-> Push(msgs, AIMessage(firstMessage, 0)),
           greetingSent |-> TRUE]

\* ------------------------------------------------------------------- Init
\* A local variable holds its initial value again once no code reads it.
IdleRun == [pc |-> "idle", idx |-> 0, hasFrames |-> FALSE]
IdleTurn == [pc |-> "idle", res |-> "none", rid |-> 0, utter |-> <<>>, elapsed |-> 0,
             snap |-> <<>>, spoke |-> FALSE, waited |-> FALSE, invoked |-> FALSE]

\* The state when handleWebSocketConnection returns: the call of
\* fetchCallDetailsAndInitialize at line 180 has run to its first await.
Init ==
  /\ agent = 0
  /\ agentInitialized = FALSE
  /\ agentInitializing = TRUE
  /\ greetingSent = FALSE
  /\ transferInProgress = FALSE
  /\ emergencyDetected = FALSE
  /\ emergencyReason = <<>>
  /\ recordingUrl = "null"
  /\ userPhoneNumber = "null"
  /\ transcriptsData = NullT
  /\ conversationState = [messages |-> <<>>, transcriptIds |-> <<>>, hasVideo |-> FALSE]
  /\ wsState = "OPEN"
  /\ out = <<>>
  /\ run = [IdleRun EXCEPT !.pc = "getCallDetails"]
  /\ turn = [t \in Turns |-> IdleTurn]
  /\ started = <<>>
  /\ alerts = <<>>
  /\ builds = [calls |-> 0, done |-> 0]
  /\ flips = 0
  /\ events = 0
  /\ closed = FALSE
  /\ toolContext = NoContext
  /\ reports = 0

\* --------------------------------------------- Initialization Coordinator
\* the flag is left as it was
Finally_Skipped(flag) == flag

\* line 79: finally { agentInitializing = false }, from its value flag
Finally(flag) == FALSE

\* The rest of fetchCallDetailsAndInitialize once initializeAgent has returned
\* (lines 68 or 77, then the finally of line 79).
GreetAndFinish(ready) ==
  LET g == sendFirstGreeting(ready, greetingSent, transcriptsData, out, messages)
  IN /\ out' = g.out
     /\ conversationState' = [conversationState EXCEPT !.messages = g.messages]
     /\ greetingSent' = g.greetingSent
     /\ agentInitializing' = Finally(agentInitializing)
     /\ run' = [IdleRun EXCEPT !.pc = "done"]

\* The catch block of lines 70-77 up to its first await: initializeAgent(null)
\* returns at once when the agent is ready, else it awaits createAgent (line 125).
Fallback ==
  IF agentInitialized
    THEN GreetAndFinish(agentInitialized) /\ UNCHANGED builds
    ELSE /\ run' = [IdleRun EXCEPT !.pc = "createAgentFallback"]
         /\ builds' = [builds EXCEPT !.calls = @ + 1]
         /\ UNCHANGED <<out, conversationState, greetingSent, agentInitializing>>

\* getCallDetails settles (lines 54-65, and initializeAgent to its first await).
InitGetCallDetails(res) ==
  /\ run.pc = "getCallDetails"
  /\ IF res = "ok"
       THEN /\ userPhoneNumber' = Phone
            /\ IF agentInitialized
                 THEN GreetAndFinish(agentInitialized)
                 ELSE /\ run' = [run EXCEPT !.pc = "getTranscripts"]
                      /\ UNCHANGED <<out, conversationState, greetingSent, agentInitializing>>
            /\ UNCHANGED builds
       ELSE /\ Fallback
            /\ UNCHANGED userPhoneNumber
  /\ UNCHANGED <<agent, agentInitialized, transferInProgress, emergencyDetected,
                 emergencyReason, recordingUrl, transcriptsData, wsState, turn,
                 started, alerts, flips, events, closed, toolContext, reports>>

\* getTranscriptsByLatestUpload settles (lines 133-144 or 168-173).
InitGetTranscripts(res) ==
  /\ run.pc = "getTranscripts"
  /\ IF res.threw
       THEN Fallback /\ UNCHANGED transcriptsData
       ELSE /\ transcriptsData' = res.value
            /\ IF ~res.value.isNull /\ Len(res.value.ids) > 0
                 THEN /\ run' = [pc |-> "fetchFrames", idx |-> 1, hasFrames |-> FALSE]
                      /\ UNCHANGED builds
                 ELSE /\ run' = [run EXCEPT !.pc = "createAgent"]
                      /\ builds' = [builds EXCEPT !.calls = @ + 1]
            /\ UNCHANGED <<out, conversationState, greetingSent, agentInitializing>>
  /\ UNCHANGED <<agent, agentInitialized, transferInProgress, emergencyDetected,
                 emergencyReason, recordingUrl, userPhoneNumber, wsState, turn,
                 started, alerts, flips, events, closed, toolContext, reports>>

\* fetchFramesByTranscriptId settles for transcript idx (lines 143-166).
InitFetchFrames(res) ==
  /\ run.pc = "fetchFrames"
  /\ IF res = "throw"
       THEN Fallback
       ELSE LET hasFrames == run.hasFrames \/ res = "frames"
            IN IF run.idx < Len(transcriptsData.ids)
                 THEN /\ run' = [run EXCEPT !.idx = @ + 1, !.hasFrames = hasFrames]
                      /\ UNCHANGED <<conversationState, builds, out, greetingSent, agentInitializing>>
                 ELSE /\ conversationState' = [conversationState EXCEPT
                                                 !.transcriptIds = transcriptsData.ids,
                                                 !.hasVideo = hasFrames]
                      /\ run' = [IdleRun EXCEPT !.pc = "createAgent"]
                      /\ builds' = [builds EXCEPT !.calls = @ + 1]
                      /\ UNCHANGED <<out, greetingSent, agentInitializing>>
  /\ UNCHANGED <<agent, agentInitialized, transferInProgress, emergencyDetected,
                 emergencyReason, recordingUrl, userPhoneNumber, transcriptsData,
                 wsState, turn, started, alerts, flips, events, closed, toolContext, reports>>

\* createAgent returns: agent is assigned, agentInitialized is set (lines 125-126,
\* 166/173-176), and the caller greets and reaches its finally.
AgentBuilt ==
  /\ agent' = builds.done + 1
  /\ builds' = [builds EXCEPT !.done = @ + 1]
  /\ agentInitialized' = TRUE
  /\ flips' = IF agentInitialized THEN flips ELSE flips + 1
  /\ GreetAndFinish(TRUE)

\* createAgent of line 166 or 173 settles.
InitCreateAgent(ok) ==
  /\ run.pc = "createAgent"
  /\ IF ok THEN /\ AgentBuilt
                /\ toolContext' = createToolsWithContext(toolContext,
                                     IF conversationState.hasVideo
                                       THEN conversationState.transcriptIds ELSE <<>>,
                                     userPhoneNumber, CallId)
           ELSE /\ Fallback
                /\ UNCHANGED <<agent, agentInitialized, flips, toolContext>>
  /\ UNCHANGED <<transferInProgress, emergencyDetected, emergencyReason,
                 recordingUrl, userPhoneNumber, transcriptsData, wsState, turn,
                 started, alerts, events, closed, reports>>

\* createAgent of line 125, awaited in the catch block, settles; its exception
\* leaves the function through the finally block.
InitCreateAgentFallback(ok) ==
  /\ run.pc = "createAgentFallback"
  /\ IF ok THEN AgentBuilt
           ELSE /\ agentInitializing' = Finally(agentInitializing)
                /\ run' = [run EXCEPT !.pc = "failed"]
                /\ UNCHANGED <<agent, agentInitialized, flips, builds, out,
                               conversationState, greetingSent>>
  /\ UNCHANGED <<transferInProgress, emergencyDetected, emergencyReason,
                 recordingUrl, userPhoneNumber, transcriptsData, wsState, turn,
                 started, alerts, events, closed, toolContext, reports>>

\* ------------------------------------------------- Transfer-Signal Codec
SignalPrefix == <<"EMERGENCY_TRANSFER", ":">>

\* line 264: the text of a message content
ContentText(c) == IF c.isString THEN c.text ELSE JsonStringify(c)

\* only the final message of the result is inspected
ScanFrom_LastOnly(ms, i) ==
  IF Len(ms) > 0 /\ StartsWith(ContentText(ms[Len(ms)].content), SignalPrefix)
    THEN Len(ms) ELSE 0

\* lines 263-276: index of the first message whose text starts with the prefix
RECURSIVE ScanFrom(_, _)
ScanFrom(ms, i) ==
  IF i > Len(ms) THEN 0
  ELSE IF StartsWith(ContentText(ms[i].content), SignalPrefix) THEN i
  ELSE ScanFrom(ms, i + 1)

DefaultReason == <<"Emergency situation">>

\* the class test asking for the trailing underscore
IsUrgentTag_Underscore(reason) == StartsWith(reason, <<"urgent_maintenance", "_">>)

\* line 285: transferReason.startsWith('urgent_maintenance')
IsUrgentTag(reason) == StartsWith(reason, <<"urgent_maintenance">>)

\* the emergency record written for every reason class
MarkEmergency_Always(isHuman, ed, er, displayReason) ==
  [emergencyDetected |-> TRUE, emergencyReason |-> displayReason]

\* lines 313-316: the emergency record after a transfer took the latch
MarkEmergency(isHuman, ed, er, displayReason) ==
  IF ~isHuman THEN [emergencyDetected |-> TRUE, emergencyReason |-> displayReason]
  ELSE [emergencyDetected |-> ed, emergencyReason |-> er]

\* the latch is not consulted
TransferAlreadyStarted_Skipped(tip) == FALSE

\* line 302: if (transferInProgress)
TransferAlreadyStarted(tip) == tip

\* the alert started for every reason class
StartsAlert_Always(isHuman) == TRUE

\* line 361: if (!isHumanAgentRequest), before the background alert
StartsAlert(isHuman) == ~isHuman

\* the holding reply recorded in the history
HeldHistory_Appended(msgs, t) == Append(msgs, [role |-> "ai", content |-> [isString |-> TRUE, text |-> <<"The transfer is in progress. Please stay on the line.">>], turn |-> t])

\* lines 302-306: the holding branch returns without a push on messages
HeldHistory(msgs, t) == msgs

\* the utterance check left out
NoUtterance_Skipped(u) == FALSE

\* line 243: if (!userMessage), the utterance being undefined or ''
NoUtterance(u) == u = <<>>

\* lines 266-270 and 285-290 for the message at index i > 0
Decode(ms, i) ==
  LET parts == Split(ContentText(ms[i].content), ":")
      transferNumber == parts[2]
      transferReason == IF Len(parts) >= 3 /\ parts[3] # <<>> THEN parts[3]
                        ELSE DefaultReason
      isUrgentMaintenance == IsUrgentTag(transferReason)
      isHumanAgentRequest == transferReason = <<"human_agent_requested">>
  IN [transferNumber |-> transferNumber,
      transferReason |-> transferReason,
      isUrgentMaintenance |-> isUrgentMaintenance,
      isHumanAgentRequest |-> isHumanAgentRequest,
      displayReason |-> IF isUrgentMaintenance
                          THEN ReplaceFirst(transferReason, <<"urgent_maintenance", "_">>, <<>>)
                          ELSE transferReason]

\* transferNumber.replace(/(\d)/g, '$1 ')
RECURSIVE SpacedDigits(_)
SpacedDigits(n) ==
  IF n = <<>> THEN <<>>
  ELSE (IF IsDigit(Head(n)) THEN <<Head(n), " ">> ELSE <<Head(n)>>) \o SpacedDigits(Tail(n))

\* lines 338-353
FallbackMessage(d) ==
  IF d.isHumanAgentRequest
    THEN <<"I apologize, the transfer to our support team didn't go through. Please call our support line directly at: ">>
         \o SpacedDigits(d.transferNumber)
         \o <<". A human agent will be happy to assist you.">>
  ELSE IF d.isUrgentMaintenance
    THEN <<"I apologize, the transfer failed. Please write this down and call our emergency maintenance line directly: ">>
         \o SpacedDigits(d.transferNumber)
         \o <<". They will dispatch help immediately.">>
  ELSE <<"This is a life-threatening emergency. Please listen carefully. Hang up this call immediately and dial 9 1 1. That's 9 1 1 for emergency services. Your safety is the absolute priority. Hang up now and make that call.">>

CallTransferredMark == <<" [CALL TRANSFERRED]">>

\* --------------------------------------------------------- Turn Processor
\* Lines 229-255 for turn t with utterance u, the agent being ready: the
\* greeting if it is still owed, then the utterance is appended and the engine
\* invoked; an empty utterance ends the turn.
ProceedTurn(t, u, sent, td, o, msgs) ==
  LET g == sendFirstGreeting(TRUE, sent, td, o, msgs)
  IN IF NoUtterance(u)
       THEN [out |-> g.out, messages |-> g.messages, greetingSent |-> g.greetingSent,
             pc |-> "done", res |-> "empty"]
       ELSE [out |-> g.out,
             messages |-> Push(g.messages, HumanMessage(Str(u), t)),
             greetingSent |-> g.greetingSent,
             pc |-> "invoke", res |-> "none"]

\* Lines 257-384 for turn t, response id rid and the engine's result.messages ms,
\* on the state (tip, ed, er, o, msgs, al, ws, phone): the new values of
\* transferInProgress, emergencyDetected, emergencyReason, out, messages, alerts,
\* the turn's outcome res, and whether an exception left the try block of
\* line 187 (threw), which the catch of line 411 answers.
HandleResult(t, rid, ms, tip, ed, er, o, msgs, al, ws, phone) ==
  LET i == ScanFrom(ms, 1)
      responseText == ms[Len(ms)].content
      same == [transferInProgress |-> tip, emergencyDetected |-> ed,
               emergencyReason |-> er, out |-> o, messages |-> msgs,
               alerts |-> al, res |-> "none", threw |-> FALSE]
  IN IF i > 0
       THEN LET d == Decode(ms, i)
                em == MarkEmergency(d.isHumanAgentRequest, ed, er, d.displayReason)
            IN IF TransferAlreadyStarted(tip)
                 THEN [same EXCEPT !.out = sendResponse(o, "holding", t, Str(HoldingText), rid).out,
                                   !.messages = HeldHistory(msgs, t),
                                   !.res = "holding"]
                 ELSE LET sent == sendDirectTransfer(o, ws, t, rid, d.transferNumber, responseText)
                          fb == Str(FallbackMessage(d))
                          newOut == IF sent.threw
                                      THEN sendResponse(o, "fallback", t, fb, rid).out
                                      ELSE sent.out
                      IN [transferInProgress |-> SetTransferFlag(tip),
                          emergencyDetected |-> em.emergencyDetected,
                          emergencyReason |-> em.emergencyReason,
                          out |-> newOut,
                          messages |-> IF sent.threw
                                         THEN Push(msgs, AIMessage(fb, t))
                                         ELSE Push(msgs, AIMessage(Str(JsToString(responseText) \o CallTransferredMark), t)),
                          alerts |-> IF ~StartsAlert(d.isHumanAgentRequest) THEN al
                                     ELSE Append(al, [turn |-> t, userPhone |-> phone,
                                                      reason |-> d.displayReason,
                                                      emergencyNumber |-> d.transferNumber,
                                                      isUrgentMaintenance |-> d.isUrgentMaintenance,
                                                      outLen |-> Len(newOut),
                                                      settled |-> FALSE]),
                          res |-> IF sent.threw THEN "fallback" ELSE "transfer",
                          threw |-> FALSE]
       ELSE LET sent == sendResponse(o, "reply", t, responseText, rid)
            IN [same EXCEPT !.messages = Push(msgs, AIMessage(responseText, t)),
                            !.out = sent.out,
                            !.res = "reply",
                            !.threw = sent.threw]

\* the catch block that only logs
CatchError_Silent(o, t, rid) == o

\* the catch block answering with the default response id
CatchError_IdZero(o, t, rid) == sendErrorResponse(o, t, 0)

\* The catch block of lines 411-414: data?.response_id || 0.
CatchError(o, t, rid) == sendErrorResponse(o, t, rid)

\* ------------------------------------------------------ inputs of a turn
PlainUtterance == <<"my pipe burst and water is everywhere">>
Number10 == <<"5", "5", "5", "0", "0", "0", "1", "1", "1", "1">>
NumberE164 == <<"+", "1">> \o Number10
SignalUtterance == SignalPrefix \o NumberE164 \o <<":", "fire">>
Utterances == {<<>>, PlainUtterance, SignalUtterance}

SigUrgent == SignalPrefix \o NumberE164 \o <<":", "urgent_maintenance", "_", "flooding">>
SigHuman == SignalPrefix \o NumberE164 \o <<":", "human_agent_requested">>
SigFire == SignalPrefix \o Number10 \o <<":", "fire">>
FinalText == <<"Help is on the way.">>

\* The messages one engine invocation adds to the history it was given.
EngineOutputs(t) ==
  { <<AIMessage(Str(FinalText), t)>>,
    <<AIMessage(NonStr(FinalText), t)>>,
    <<ToolMessage(Str(SigUrgent), t), AIMessage(Str(FinalText), t)>>,
    <<ToolMessage(Str(SigHuman), t), AIMessage(Str(FinalText), t)>>,
    <<AIMessage(Str(SigFire), t)>> }

\* ------------------------------------------------ response_required event
\* ws.on('message') for a response_required event, to its first await or its
\* end (lines 184-255).
Arrive(t, u) ==
  /\ turn[t].pc = "idle"
  /\ \A q \in Turns : q < t => turn[q].pc # "idle"
  /\ wsState = "OPEN"
  /\ started' = Append(started, t)
  /\ IF ~agentInitialized /\ agentInitializing
       THEN /\ turn' = [turn EXCEPT ![t] = [IdleTurn EXCEPT !.pc = "waitInit", !.rid = t, !.utter = u,
                                                           !.spoke = (u # <<>>), !.waited = TRUE]]
            /\ UNCHANGED <<out, conversationState, greetingSent>>
       ELSE IF NotInitialized(agentInitialized)
         THEN /\ out' = sendErrorResponse(out, t, t)
              /\ turn' = [turn EXCEPT ![t] = [IdleTurn EXCEPT !.pc = "done", !.res = "notInitialized", !.rid = t,
                                                             !.spoke = (u # <<>>)]]
              /\ UNCHANGED <<conversationState, greetingSent>>
         ELSE LET p == ProceedTurn(t, u, greetingSent, transcriptsData, out, messages)
              IN /\ out' = p.out
                 /\ conversationState' = [conversationState EXCEPT !.messages = p.messages]
                 /\ greetingSent' = p.greetingSent
                 /\ turn' = [turn EXCEPT ![t] = [IdleTurn EXCEPT !.pc = p.pc, !.res = p.res, !.rid = t,
                                                 !.spoke = (u # <<>>),
                                                 !.invoked = (p.pc = "invoke"),
                                                 !.snap = IF p.pc = "invoke" THEN p.messages ELSE <<>>]]
  /\ UNCHANGED <<agent, agentInitialized, agentInitializing, transferInProgress,
                 emergencyDetected, emergencyReason, recordingUrl, userPhoneNumber,
                 transcriptsData, wsState, run, alerts, builds, flips, events, closed, toolContext, reports>>

\* A timer of the wait loop fires (lines 218-255): the loop goes on, or ends in
\* the timeout reply, or the turn proceeds.
Poll(t) ==
  /\ turn[t].pc = "waitInit"
  /\ PollStep >= pollInterval
  /\ LET elapsed == turn[t].elapsed + PollStep
     IN IF LoopContinues(agentInitialized, elapsed)
          THEN /\ turn' = [turn EXCEPT ![t].elapsed = elapsed]
               /\ UNCHANGED <<out, conversationState, greetingSent>>
          ELSE IF NotInitialized(agentInitialized)
            THEN /\ out' = sendErrorResponse(out, t, turn[t].rid)
                 /\ turn' = [turn EXCEPT ![t].pc = "done", ![t].res = "timeout", ![t].elapsed = 0,
                                         ![t].utter = <<>>]
                 /\ UNCHANGED <<conversationState, greetingSent>>
            ELSE LET p == ProceedTurn(t, turn[t].utter, greetingSent, transcriptsData, out, messages)
                 IN /\ out' = p.out
                    /\ conversationState' = [conversationState EXCEPT !.messages = p.messages]
                    /\ greetingSent' = p.greetingSent
                    /\ turn' = [turn EXCEPT ![t].pc = p.pc, ![t].res = p.res, ![t].elapsed = 0,
                                            ![t].utter = <<>>,
                                            ![t].invoked = (p.pc = "invoke"),
                                            ![t].snap = IF p.pc = "invoke" THEN p.messages ELSE <<>>]
  /\ UNCHANGED <<agent, agentInitialized, agentInitializing, transferInProgress,
                 emergencyDetected, emergencyReason, recordingUrl, userPhoneNumber,
                 transcriptsData, wsState, run, started, alerts, builds, flips,
                 events, closed, toolContext, reports>>

\* agent.invoke returns the history it was given followed by new messages
\* (lines 255-384, and the catch of line 411 when a later step throws).
InvokeReturn(t, new) ==
  /\ turn[t].pc = "invoke"
  /\ LET h == HandleResult(t, turn[t].rid, turn[t].snap \o new, transferInProgress,
                           emergencyDetected, emergencyReason, out, messages,
                           alerts, wsState, userPhoneNumber)
     IN /\ transferInProgress' = h.transferInProgress
        /\ emergencyDetected' = h.emergencyDetected
        /\ emergencyReason' = h.emergencyReason
        /\ conversationState' = [conversationState EXCEPT !.messages = h.messages]
        /\ alerts' = h.alerts
        /\ out' = IF h.threw THEN CatchError(h.out, t, turn[t].rid) ELSE h.out
        /\ turn' = [turn EXCEPT ![t].pc = "done",
                                ![t].res = IF h.threw THEN "replyThenError" ELSE h.res,
                                ![t].snap = <<>>]
  /\ UNCHANGED <<agent, agentInitialized, agentInitializing, greetingSent,
                 recordingUrl, userPhoneNumber, transcriptsData, wsState, run,
                 started, builds, flips, events, closed, toolContext, reports>>

\* agent.invoke throws: the catch of lines 411-414.
InvokeThrow(t) ==
  /\ turn[t].pc = "invoke"
  /\ out' = CatchError(out, t, turn[t].rid)
  /\ turn' = [turn EXCEPT ![t].pc = "done", ![t].res = "error", ![t].snap = <<>>]
  /\ UNCHANGED <<sessionVars, wsState, run, started, alerts, builds, flips,
                 events, closed, toolContext, reports>>

\* ----------------------------------------------------------- other events
\* the acknowledgment without auto_reconnect
ConfigAck_NoReconnect ==
  [Payload("config", 0, 0, Str(<<>>))
   EXCEPT !.response_type = "config", !.config = {"call_details"}]

\* lines 198-204: {response_type: 'config', config: {auto_reconnect: true,
\* call_details: true}}; config is the set of its options that are true, and
\* the payload has no other field (response_id, content, content_complete and
\* end_call keep the values of a payload that lacks them).
ConfigAck ==
  [Payload("config", 0, 0, Str(<<>>))
   EXCEPT !.response_type = "config",
          !.config = {"auto_reconnect", "call_details"}]

RecordingUrls == {"none", "https://recordings/1"}

\* call_details (lines 194-206)
CallDetails ==
  /\ wsState = "OPEN"
  /\ events' = events + 1
  /\ out' = Append(out, ConfigAck)
  /\ UNCHANGED <<sessionVars, wsState, run, turn, started, alerts, builds,
                 flips, closed, toolContext, reports>>

\* the first recording reference is kept
RecordingEvent_FirstWins(url) ==
  /\ wsState = "OPEN"
  /\ events' = events + 1
  /\ recordingUrl' = IF url # "none" /\ recordingUrl = "null" THEN url ELSE recordingUrl
  /\ UNCHANGED <<agent, agentInitialized, agentInitializing, greetingSent,
                 transferInProgress, emergencyDetected, emergencyReason,
                 userPhoneNumber, transcriptsData, conversationState, wsState,
                 out, run, turn, started, alerts, builds, flips, closed,
                 toolContext, reports>>

\* update_only and call_ended (lines 390-409)
RecordingEvent(url) ==
  /\ wsState = "OPEN"
  /\ events' = events + 1
  /\ recordingUrl' = IF url # "none" THEN url ELSE recordingUrl
  /\ UNCHANGED <<agent, agentInitialized, agentInitializing, greetingSent,
                 transferInProgress, emergencyDetected, emergencyReason,
                 userPhoneNumber, transcriptsData, conversationState, wsState,
                 out, run, turn, started, alerts, builds, flips, closed, toolContext, reports>>

\* a payload JSON.parse rejects (lines 188, 411-414): data is still null
Malformed ==
  /\ wsState = "OPEN"
  /\ events' = events + 1
  /\ out' = CatchError(out, 0, 0)
  /\ UNCHANGED <<sessionVars, wsState, run, turn, started, alerts, builds,
                 flips, closed, toolContext, reports>>

\* the unknown event answered with the apology
UnknownEvent_Apology ==
  /\ wsState = "OPEN"
  /\ events' = events + 1
  /\ out' = sendErrorResponse(out, 0, 0)
  /\ UNCHANGED <<sessionVars, wsState, run, turn, started, alerts, builds,
                 flips, closed, toolContext, reports>>

\* an interaction_type the handler does not know: no branch is taken
UnknownEvent ==
  /\ wsState = "OPEN"
  /\ events' = events + 1
  /\ UNCHANGED <<sessionVars, wsState, out, run, turn, started, alerts,
                 builds, flips, closed, toolContext, reports>>

\* ws.on('close') (lines 417-428): the socket is closed, the handler only logs
Close ==
  /\ wsState = "OPEN"
  /\ wsState' = "CLOSED"
  /\ closed' = TRUE
  /\ UNCHANGED <<sessionVars, out, run, turn, started, alerts, builds, flips,
                 events, toolContext, reports>>

\* The background alert started at lines 361-373 settles: sendEmergencyAlert
\* returned (true or false) or the import was rejected, which the .catch of
\* line 372 logs. Nothing awaits it and its value is dropped.
AlertSettle(k, ok) ==
  /\ k \in DOMAIN alerts
  /\ ~alerts[k].settled
  /\ alerts' = [alerts EXCEPT ![k].settled = TRUE]
  /\ out' = IF ok THEN out ELSE AlertFailed(out)
  /\ UNCHANGED <<sessionVars, wsState, run, turn, started, builds, flips,
                 events, closed, toolContext, reports>>

\* ------------------------------------------------------------ specification
LookupAnswers == {"ok", "noNumber", "throw"}
TranscriptAnswers ==
  {[threw |-> TRUE, value |-> NullT], [threw |-> FALSE, value |-> NullT]}
  \cup {[threw |-> FALSE, value |-> Transcripts(n)] : n \in 0..MaxVideos}
FrameAnswers == {"frames", "none", "throw"}

InitStep ==
  \/ \E res \in LookupAnswers : InitGetCallDetails(res)
  \/ \E res \in TranscriptAnswers : InitGetTranscripts(res)
  \/ \E res \in FrameAnswers : InitFetchFrames(res)
  \/ \E ok \in BOOLEAN : InitCreateAgent(ok)
  \/ \E ok \in BOOLEAN : InitCreateAgentFallback(ok)

TurnStep ==
  \/ \E t \in Turns, u \in Utterances : Arrive(t, u)
  \/ \E t \in Turns : Poll(t)
  \/ \E t \in Turns : \E new \in EngineOutputs(t) : InvokeReturn(t, new)
  \/ \E t \in Turns : InvokeThrow(t)

EventStep ==
  \/ \E k \in 1..MaxTurns, ok \in BOOLEAN : AlertSettle(k, ok)
  \/ events < MaxEvents /\ CallDetails
  \/ events < MaxEvents /\ \E url \in RecordingUrls : RecordingEvent(url)
  \/ events < MaxEvents /\ Malformed
  \/ events < MaxEvents /\ UnknownEvent
  \/ Close

Next == InitStep \/ TurnStep \/ EventStep

Spec == Init /\ [][Next]_vars

\* ----------------------------------------- the codec on a ready session
\* Results of the engine beyond EngineOutputs: tags and shapes of the signal
\* the scan and the classification have to tell apart.
Number911 == <<"9", "1", "1">>
SigBare == SignalPrefix \o NumberE164 \o <<":", "urgent_maintenance">>
SigNoReason == SignalPrefix \o Number911
SigEmptyReason == SignalPrefix \o NumberE164 \o <<":">>
SigQuoted == <<"Say ">> \o SigFire

CodecOutputs(t) ==
  EngineOutputs(t) \cup
  { <<ToolMessage(Str(SigBare), t), AIMessage(Str(FinalText), t)>>,
    <<ToolMessage(Str(SigNoReason), t), AIMessage(Str(FinalText), t)>>,
    <<ToolMessage(Str(SigEmptyReason), t), AIMessage(Str(FinalText), t)>>,
    <<ToolMessage(NonStr(SigFire), t), AIMessage(Str(FinalText), t)>>,
    <<ToolMessage(Str(SigHuman), t), ToolMessage(Str(SigUrgent), t), AIMessage(Str(FinalText), t)>>,
    <<ToolMessage(Str(SigNoReason), t), AIMessage(Str(SigUrgent), t)>>,
    <<AIMessage(Str(SigQuoted), t)>> }

\* A session whose initialization has ended with the agent built and the
\* greeting sent, before any event: the caller known or not, with the
\* transcripts the lookup may have returned.
ReadyInit ==
  /\ agent = 1
  /\ agentInitialized = TRUE
  /\ agentInitializing = FALSE
  /\ greetingSent = TRUE
  /\ transferInProgress = FALSE
  /\ emergencyDetected = FALSE
  /\ emergencyReason = <<>>
  /\ recordingUrl = "null"
  /\ \/ userPhoneNumber = "null" /\ transcriptsData = NullT
     \/ userPhoneNumber = Phone
        /\ transcriptsData \in {NullT} \cup {Transcripts(n) : n \in 0..MaxVideos}
  /\ \E hasVideo \in BOOLEAN :
       /\ hasVideo => ~transcriptsData.isNull /\ Len(transcriptsData.ids) > 0
       /\ LET videoCount == IF transcriptsData.isNull THEN 0 ELSE Len(transcriptsData.ids)
              firstMessage == Str(generateFirstMessage(videoCount))
          IN /\ conversationState =
                  [messages |-> <<AIMessage(firstMessage, 0)>>,
                   transcriptIds |-> IF hasVideo \/ videoCount > 0
                                       THEN transcriptsData.ids ELSE <<>>,
                   hasVideo |-> hasVideo]
             /\ out = <<Payload("greeting", 0, 0, firstMessage)>>
  /\ wsState = "OPEN"
  /\ run = [IdleRun EXCEPT !.pc = "done"]
  /\ turn = [t \in Turns |-> IdleTurn]
  /\ started = <<>>
  /\ alerts = <<>>
  /\ builds = [calls |-> 1, done |-> 1]
  /\ flips = 1
  /\ events = 0
  /\ closed = FALSE
  /\ toolContext = IF userPhoneNumber = "null" THEN NoContext
                   ELSE createToolsWithContext(NoContext,
                          IF conversationState.hasVideo THEN transcriptsData.ids ELSE <<>>,
                          userPhoneNumber, CallId)
  /\ reports = 0

NextReady ==
  \/ \E t \in Turns, u \in Utterances : Arrive(t, u)
  \/ \E t \in Turns : \E new \in CodecOutputs(t) : InvokeReturn(t, new)
  \/ \E t \in Turns : InvokeThrow(t)
  \/ \E k \in 1..MaxTurns, ok \in BOOLEAN : AlertSettle(k, ok)
  \/ Close

SpecReady == ReadyInit /\ [][NextReady]_vars

\* -------------------------------- the session among the events of a process
\* Initialization among longer sequences of the events other than
\* response_required, and the agents other sessions of the same process build
\* meanwhile.
MaxSeqEvents == 3
SeqUrls == RecordingUrls \cup {"https://recordings/2"}
OtherPhone == "+15559990000"
OtherCallId == "call_B"
OtherTranscriptIds == <<7>>

\* initializeAgent of another connection reaches createAgent (lines 166, 173 of
\* its own handleWebSocketConnection): createToolsWithContext runs for it.
OtherSessionBuilds(ids) ==
  /\ toolContext' = createToolsWithContext(toolContext, ids, OtherPhone, OtherCallId)
  /\ toolContext' # toolContext
  /\ UNCHANGED <<sessionVars, wsState, out, run, turn, started, alerts, builds,
                 flips, events, closed, reports>>

NextProcess ==
  \/ InitStep
  \/ events < MaxSeqEvents /\ CallDetails
  \/ events < MaxSeqEvents /\ \E url \in SeqUrls : RecordingEvent(url)
  \/ events < MaxSeqEvents /\ Malformed
  \/ events < MaxSeqEvents /\ UnknownEvent
  \/ \E ids \in {<<>>, OtherTranscriptIds} : OtherSessionBuilds(ids)
  \/ Close

SpecProcess == Init /\ [][NextProcess]_vars

\* ------------------------------------- destinations the tools can produce
\* The template string of the urgent-maintenance tool with no emergency number
\* configured (the text undefined), and a signal whose number segment is empty.
NumberUndefined == <<"undefined">>
SigUndefined == SignalPrefix \o NumberUndefined \o <<":", "urgent_maintenance", "_", "flooding">>
SigNoNumber == SignalPrefix \o <<":", "fire">>

NumberOutputs(t) ==
  CodecOutputs(t) \cup
  { <<ToolMessage(Str(SigUndefined), t), AIMessage(Str(FinalText), t)>>,
    <<ToolMessage(Str(SigNoNumber), t), AIMessage(Str(FinalText), t)>> }

NextNumbers ==
  \/ \E t \in Turns, u \in Utterances : Arrive(t, u)
  \/ \E t \in Turns : \E new \in NumberOutputs(t) : InvokeReturn(t, new)
  \/ \E t \in Turns : InvokeThrow(t)
  \/ \E k \in 1..MaxTurns, ok \in BOOLEAN : AlertSettle(k, ok)
  \/ Close

SpecNumbers == ReadyInit /\ [][NextNumbers]_vars

\* ================================================================== claims
OutIdx == DOMAIN out
PayloadsOf(t) == {i \in OutIdx : out[i].turn = t}
TransferCommands == {i \in OutIdx : out[i].has_transfer}
Greetings == {i \in OutIdx : out[i].kind = "greeting"}
SignalTurns == {t \in Turns : turn[t].res \in {"transfer", "fallback", "holding"}}
LatchTurns == {t \in Turns : turn[t].res \in {"transfer", "fallback"}}

\* C1 as stated: once a turn whose result carried a transfer signal has been
\* answered, exactly one transfer command (a payload with transfer_number) has
\* been sent.
C1_ExactlyOneTransfer ==
  SignalTurns # {} => Cardinality(TransferCommands) = 1

\* C1 as amended: at most one transfer command is ever sent; exactly one turn
\* takes the latch (the first whose result carries a signal) and it sends the
\* transfer command when the socket is open and the fallback reply otherwise;
\* every other signal turn sends the holding reply without transfer_number,
\* after the latch turn's payload; a transfer command is on the wire only with
\* transferInProgress set.
C1_AtMostOneTransfer ==
  /\ Cardinality(TransferCommands) <= 1
  /\ SignalTurns # {} => Cardinality(LatchTurns) = 1
  /\ transferInProgress <=> SignalTurns # {}
  /\ \A t \in SignalTurns :
       /\ Cardinality(PayloadsOf(t)) = 1
       /\ \A i \in PayloadsOf(t) :
            /\ out[i].has_transfer <=> turn[t].res = "transfer"
            /\ turn[t].res = "holding" =>
                 /\ out[i].content = Str(HoldingText)
                 /\ \E l \in LatchTurns : \E j \in PayloadsOf(l) : j < i
            /\ turn[t].res = "fallback" => closed

\* two turns were in flight together, both results carried a signal: one
\* transfer command and one holding reply
C1_Witness ==
  /\ turn[1].res = "holding"
  /\ turn[2].res = "transfer"
  /\ Cardinality(TransferCommands) = 1

\* C2 as stated: once the initialization run has ended, exactly one greeting
\* has been emitted, and never more than one at any time.
C2_ExactlyOneGreeting ==
  /\ Cardinality(Greetings) <= 1
  /\ run.pc \in {"done", "failed"} => Cardinality(Greetings) = 1

UserReplyKinds == {"reply", "transfer", "holding", "fallback"}

\* C3: every reply to a user utterance (normal reply, transfer command, holding
\* reply, transfer-fallback reply) is preceded on the connection by the
\* greeting, and none is emitted while greetingSent is false.
C3_GreetingFirst ==
  \A i \in OutIdx :
    out[i].kind \in UserReplyKinds =>
      /\ greetingSent
      /\ \E j \in OutIdx : j < i /\ out[j].kind = "greeting" /\ out[j].response_id = 0

\* a turn that arrived before initialization completed has been answered
C3_Witness ==
  \E t \in Turns :
    /\ turn[t].waited
    /\ turn[t].res \in UserReplyKinds
    /\ \E i \in PayloadsOf(t) : out[i].kind \in UserReplyKinds

\* C4 as stated: once the initialization run has ended, the agent has been
\* constructed exactly once and agentInitialized has gone false -> true
\* exactly once.
C4_ExactlyOneBuild ==
  run.pc \in {"done", "failed"} => builds.done = 1 /\ flips = 1

\* C5 as stated: a finished turn whose event carried a non-empty utterance has
\* exactly one outbound payload.
C5_OneActionPerTurn ==
  \A t \in Turns :
    turn[t].pc = "done" /\ turn[t].spoke => Cardinality(PayloadsOf(t)) = 1

\* C6 as stated: every reply a turn appends to messages immediately follows
\* that turn's utterance.
C6_ReplyFollowsUtterance ==
  \A i \in DOMAIN messages :
    messages[i].role = "ai" /\ messages[i].turn > 0 =>
      /\ i > 1
      /\ messages[i - 1].role = "human"
      /\ messages[i - 1].turn = messages[i].turn

\* C7: every step leaves messages an extension of its previous value.
C7_AppendOnly ==
  [][/\ Len(messages') >= Len(messages)
     /\ SubSeq(messages', 1, Len(messages)) = messages]_vars

\* the history has grown across an engine failure, another inbound event and
\* the close of the connection
C7_Witness ==
  /\ closed
  /\ events > 0
  /\ Len(messages) >= 4
  /\ \E t \in Turns : turn[t].res = "error"

StartedBefore(a, b) ==
  \E x, y \in DOMAIN started : x < y /\ started[x] = a /\ started[y] = b

\* C8 as stated: the payloads of a turn that started earlier all precede the
\* payloads of a turn that started later.
C8_OutboundInOrder ==
  \A i, j \in OutIdx :
    StartedBefore(out[i].turn, out[j].turn) => i < j

ErrorResults == {"error", "replyThenError"}
ErrorRepliesOf(t) == {i \in PayloadsOf(t) : out[i].content = Str(ApologyText)}

NotReadyResults == {"timeout", "notInitialized"}

\* C10: the wait loop ends once maxWait has elapsed; a turn that ends by the
\* timeout, or because initialization is neither ready nor running, has sent
\* exactly one error reply with the event's response_id, has appended nothing
\* to messages and has not invoked the engine; a turn leaves the wait loop
\* without a ready agent only by the timeout; the next event can be handled.
C10_InitTimeout ==
  /\ [](\A t \in Turns :
          /\ turn[t].pc = "waitInit" => turn[t].elapsed < maxWait /\ turn[t].waited
          /\ turn[t].res \in NotReadyResults =>
               /\ turn[t].pc = "done"
               /\ ~turn[t].invoked
               /\ Cardinality(PayloadsOf(t)) = 1
               /\ \A i \in PayloadsOf(t) :
                    /\ out[i].content = Str(ApologyText)
                    /\ out[i].response_id = turn[t].rid
                    /\ turn[t].rid = t
               /\ \A k \in DOMAIN messages : messages[k].turn # t
               /\ turn[t].res = "timeout" <=> turn[t].waited
               /\ (t + 1 \in Turns /\ turn[t + 1].pc = "idle" /\ wsState = "OPEN")
                    => ENABLED Arrive(t + 1, PlainUtterance))
  /\ [][\A t \in Turns :
          /\ (turn[t].pc = "waitInit" /\ turn'[t].pc # "waitInit" /\ ~agentInitialized)
               => turn'[t].res = "timeout"
          /\ (turn[t].pc = "idle" /\ turn'[t].pc # "idle" /\ ~agentInitialized /\ ~agentInitializing)
               => turn'[t].res = "notInitialized"
          /\ (turn'[t].res \in NotReadyResults /\ turn[t].res \notin NotReadyResults)
               => messages' = messages]_vars

\* a turn with an utterance timed out waiting, initialization then completed
\* and the next turn was answered
C10_Witness ==
  /\ turn[1].res = "timeout"
  /\ turn[1].spoke
  /\ turn[2].res = "reply"

FatalSurfaced == \E i \in OutIdx : out[i].end_call
RunEnded == run.pc \in {"done", "failed"}

\* C11 as stated: once fetchCallDetailsAndInitialize has ended, the agent is
\* initialized or a fatal session error has been surfaced on the connection;
\* the session is not left un-initialized with its turns answered by the apology.
C11_InitResolves ==
  RunEnded => (agentInitialized \/ FatalSurfaced)

\* C12 as stated: when the caller-identity lookup threw or returned no
\* from_number (userPhoneNumber is still null once the run has ended), the
\* receptionist agent has been built with no caller, agentInitialized is set,
\* the greeting has been sent and no transcripts were looked up.
C12_LookupFallback ==
  (RunEnded /\ userPhoneNumber = "null")
    => /\ agent # 0 /\ agentInitialized
       /\ Cardinality(Greetings) = 1
       /\ transcriptsData = NullT /\ builds.calls = 1

KnownNumbers == {NumberE164, Number10, Number911}
Wording(isHuman, isUrgent, n) ==
  Str(FallbackMessage([isHumanAgentRequest |-> isHuman,
                       isUrgentMaintenance |-> isUrgent, transferNumber |-> n]))
LastOut == out[Len(out)]
LastAlert == alerts[Len(alerts)]
\* turn t ends its engine call in this step and takes the transfer latch
TakesLatch(t) ==
  /\ turn[t].pc = "invoke" /\ turn'[t].pc = "done"
  /\ ~transferInProgress /\ transferInProgress'

\* C13: when a turn takes the transfer latch while the socket is not open (the
\* transfer send throws), no transfer command is sent; exactly one payload is
\* sent, without transfer_number, with the event's response_id and the wording
\* of the reason class (human agent: no alert is started; else the class of the
\* alert); that text is appended to messages and the turn ends as a fallback,
\* not as an error.
C13_TransferFallback ==
  [][\A t \in Turns :
       (TakesLatch(t) /\ wsState # "OPEN")
         => /\ turn'[t].res = "fallback"
            /\ Len(out') = Len(out) + 1
            /\ ~LastOut'.has_transfer /\ LastOut'.transfer_number = <<>>
            /\ LastOut'.turn = t /\ LastOut'.response_id = turn[t].rid
            /\ ~LastOut'.end_call
            /\ IF alerts' = alerts
                 THEN \E n \in KnownNumbers : LastOut'.content = Wording(TRUE, FALSE, n)
                 ELSE LastOut'.content =
                        Wording(FALSE, LastAlert'.isUrgentMaintenance, LastAlert'.emergencyNumber)
            /\ messages' = Append(messages, AIMessage(LastOut'.content, t))]_vars

C13_Witness ==
  \E t \in Turns :
    /\ turn[t].res = "fallback"
    /\ \E i \in OutIdx : /\ out[i].turn = t /\ out[i].kind = "fallback"
                          /\ \E j \in DOMAIN messages :
                               messages[j] = AIMessage(out[i].content, t)
    /\ TransferCommands = {}

ScenarioA == <<ToolMessage(Str(SigUrgent), 1), AIMessage(Str(FinalText), 1)>>

\* C14 (Scenario A): in a ready session with the socket open and no transfer in
\* progress, the turn with response_id 1 and the utterance "my pipe burst and
\* water is everywhere", whose engine result adds the intermediate message
\* EMERGENCY_TRANSFER:+15550001111:urgent_maintenance_flooding and a final
\* text to a history that holds no signal, sends exactly one payload: transfer_number +15550001111, response_id
\* 1, end_call false; afterwards emergencyDetected is true, emergencyReason is
\* flooding and transferInProgress is true.
C14_ScenarioA ==
  [][(/\ InvokeReturn(1, ScenarioA)
      /\ agentInitialized /\ wsState = "OPEN" /\ ~transferInProgress
      /\ turn[1].snap[Len(turn[1].snap)] = HumanMessage(Str(PlainUtterance), 1)
      /\ \A j \in DOMAIN turn[1].snap :
           ~StartsWith(ContentText(turn[1].snap[j].content), SignalPrefix))
       => /\ Len(out') = Len(out) + 1
          /\ Cardinality(PayloadsOf(1))' = 1
          /\ LastOut'.turn = 1 /\ LastOut'.response_id = 1
          /\ LastOut'.has_transfer
          /\ LastOut'.transfer_number = <<"+", "1", "5", "5", "5", "0", "0", "0", "1", "1", "1", "1">>
          /\ LastOut'.end_call = FALSE
          /\ LastOut'.response_type = "response" /\ LastOut'.content_complete
          /\ emergencyDetected' /\ emergencyReason' = <<"flooding">>
          /\ transferInProgress']_vars

C14_Witness ==
  /\ turn[1].res = "transfer"
  /\ emergencyDetected /\ emergencyReason = <<"flooding">> /\ transferInProgress
  /\ \E j \in DOMAIN messages : messages[j] = HumanMessage(Str(PlainUtterance), 1)
  /\ \E i \in OutIdx : out[i].turn = 1 /\ out[i].has_transfer /\ out[i].response_id = 1

\* The signal read off a result, stated without the loop of the decoder.
Min(S) == CHOOSE k \in S : \A j \in S : k <= j
IsSignalContent(c) ==
  c.isString /\ Len(c.text) >= 2 /\ c.text[1] = "EMERGENCY_TRANSFER" /\ c.text[2] = ":"
SignalIndices(ms) == {k \in DOMAIN ms : IsSignalContent(ms[k].content)}
FirstSignal(ms) == IF SignalIndices(ms) = {} THEN 0 ELSE Min(SignalIndices(ms))
NextColon(s, i) == Min({j \in DOMAIN s : j > i /\ s[j] = ":"} \cup {Len(s) + 1})
Segment1(s) == SubSeq(s, 3, NextColon(s, 2) - 1)
Segment2(s) ==
  LET c2 == NextColon(s, 2)
  IN IF c2 > Len(s) THEN <<>> ELSE SubSeq(s, c2 + 1, NextColon(s, c2) - 1)
ReasonOf(s) == IF Segment2(s) = <<>> THEN <<"Emergency situation">> ELSE Segment2(s)
HumanTag == <<"human_agent_requested">>
NewPayloads == {i \in DOMAIN out' : i > Len(out)}

\* C15: when the engine returns, the first message of the result (history
\* followed by the new messages) whose string content starts with
\* EMERGENCY_TRANSFER: decides the turn, wherever it stands: with none the turn
\* is an ordinary reply and no transfer is sent; with one and the latch taken
\* the turn holds; else the transfer goes to segment 1 (as sent, or formatted
\* to E.164) and the alert carries segment 1 and the reason of segment 2, the
\* generic reason when segment 2 is missing or empty. Content that is not a
\* string is serialized first and then does not start with the prefix.
C15_ScanOrder ==
  [][\A t \in Turns : \A new \in CodecOutputs(t) :
       InvokeReturn(t, new) =>
         LET ms == turn[t].snap \o new
             k == FirstSignal(ms)
         IN IF k = 0
              THEN /\ turn'[t].res \in {"reply", "replyThenError"}
                   /\ \A i \in NewPayloads : ~out'[i].has_transfer
                   /\ UNCHANGED <<transferInProgress, alerts, emergencyDetected, emergencyReason>>
            ELSE IF transferInProgress
              THEN /\ turn'[t].res = "holding"
                   /\ UNCHANGED <<alerts, emergencyDetected, emergencyReason>>
            ELSE LET number == Segment1(ms[k].content.text)
                     reason == ReasonOf(ms[k].content.text)
                 IN /\ turn'[t].res \in {"transfer", "fallback"}
                    /\ turn'[t].res = "transfer"
                         => /\ LastOut'.has_transfer
                            /\ LastOut'.transfer_number =
                                 IF validateE164(number) THEN number ELSE formatToE164(number)
                    /\ (reason = HumanTag) <=> (alerts' = alerts)
                    /\ alerts' # alerts
                         => /\ LastAlert'.emergencyNumber = number
                            /\ emergencyReason' = LastAlert'.reason
                            /\ \/ LastAlert'.reason = reason
                               \/ /\ reason[1] = "urgent_maintenance"
                                  /\ reason = <<"urgent_maintenance", "_">> \o LastAlert'.reason]_vars

\* two signals in one result, the first without a reason: the first decides
C15_Witness ==
  /\ Len(alerts) = 1
  /\ alerts[1].emergencyNumber = Number911
  /\ alerts[1].reason = DefaultReason
  /\ \E i \in OutIdx : /\ out[i].has_transfer /\ out[i].content = Str(SigUrgent)
                        /\ out[i].transfer_number = <<"+", "1", "9", "1", "1">>

\* the class a step gave to the signal it handled, as the session shows it
ClassShown(t, isHuman, isUrgent, display) ==
  /\ isHuman <=> (alerts' = alerts)
  /\ isHuman => UNCHANGED <<emergencyDetected, emergencyReason>>
  /\ ~isHuman => /\ LastAlert'.isUrgentMaintenance = isUrgent
                 /\ LastAlert'.reason = display
                 /\ emergencyDetected' /\ emergencyReason' = display
  /\ turn'[t].res = "fallback"
       => \E n \in KnownNumbers : LastOut'.content = Wording(isHuman, isUrgent, n)

Display(tag) ==
  IF Len(tag) >= 2 /\ tag[1] = "urgent_maintenance" /\ tag[2] = "_"
    THEN SubSeq(tag, 3, Len(tag)) ELSE tag
\* the step is the return of the engine to a turn that takes the latch with a
\* signal of a reason other than human_agent_requested
EmergencyTransferFires ==
  \E t \in Turns : \E new \in EngineOutputs(t) :
    /\ InvokeReturn(t, new) /\ ~transferInProgress
    /\ FirstSignal(turn[t].snap \o new) > 0
    /\ LET ms == turn[t].snap \o new
       IN ReasonOf(ms[FirstSignal(ms)].content.text) # HumanTag

\* C17: the turn that takes the transfer latch leaves emergencyDetected false
\* and emergencyReason null when the reason of its signal is
\* human_agent_requested, and sets emergencyDetected and the display reason
\* for every other reason, whether the transfer command or the fallback is
\* sent; emergencyDetected becomes true in no other step.
C17_EmergencyAccounting ==
  [][/\ \A t \in Turns : \A new \in EngineOutputs(t) :
          (InvokeReturn(t, new) /\ ~transferInProgress /\ FirstSignal(turn[t].snap \o new) > 0)
            => LET ms == turn[t].snap \o new
                   tag == ReasonOf(ms[FirstSignal(ms)].content.text)
               IN /\ transferInProgress'
                  /\ IF tag = HumanTag
                       THEN ~emergencyDetected' /\ emergencyReason' = <<>>
                       ELSE emergencyDetected' /\ emergencyReason' = Display(tag)
     /\ (~emergencyDetected /\ emergencyDetected') => EmergencyTransferFires
     /\ emergencyDetected' => transferInProgress']_vars

\* a human-agent transfer was sent, a later signal was held: no emergency
C17_Witness ==
  /\ \E t \in Turns : turn[t].res = "transfer"
  /\ \E t \in Turns : turn[t].res = "holding"
  /\ alerts = <<>>
  /\ ~emergencyDetected /\ emergencyReason = <<>> /\ transferInProgress

\* C18: emergencyDetected and emergencyReason are written at most once: while
\* emergencyDetected is false the reason is null, and once it is true no step
\* changes either of them.
C18_WriteOnce ==
  [][/\ emergencyDetected => UNCHANGED <<emergencyDetected, emergencyReason>>
     /\ ~emergencyDetected' => emergencyReason' = <<>>]_vars

\* the record says flooding after a later turn, whose caller utterance itself
\* carried a signal with the reason fire, was held
C18_Witness ==
  /\ emergencyDetected /\ emergencyReason = <<"flooding">>
  /\ turn[1].res = "transfer" /\ turn[2].res = "holding"
  /\ \E j \in DOMAIN messages : messages[j] = HumanMessage(Str(SignalUtterance), 2)

\* C19: an alert is started only after the turn it belongs to has sent its
\* transfer command (or its fallback) and the turn ends in the same step,
\* without waiting for it; a step in which an alert settles, with success or
\* with failure, changes no payload sent, sends none, and changes no session
\* variable and no turn.
C19_AlertIsolated ==
  [][/\ \A k \in DOMAIN alerts' :
          LET a == alerts'[k]
          IN /\ turn'[a.turn].pc = "done"
             /\ a.outLen <= Len(out')
             /\ \E i \in 1..a.outLen :
                  /\ out'[i].turn = a.turn
                  /\ out'[i].kind \in {"transfer", "fallback"}
                  /\ turn'[a.turn].res = "transfer" => out'[i].has_transfer
     /\ (\E k \in DOMAIN alerts : k \in DOMAIN alerts' /\ ~alerts[k].settled /\ alerts'[k].settled)
          => /\ out' = out
             /\ UNCHANGED <<sessionVars, turn, wsState, started, run>>]_vars

\* an alert settled after the transfer command of its turn and nothing was
\* sent since
C19_Witness ==
  /\ Len(alerts) = 1 /\ alerts[1].settled
  /\ turn[alerts[1].turn].res = "transfer"
  /\ Len(out) = alerts[1].outLen
  /\ out[Len(out)].has_transfer

\* C20 as stated: a response_required event with no utterance is answered by
\* no payload and does not invoke the engine, in whatever state it arrives.
C20_EmptyTurnSilent ==
  \A t \in Turns :
    (turn[t].pc = "done" /\ ~turn[t].spoke)
      => PayloadsOf(t) = {} /\ ~turn[t].invoked

\* C20 as amended: a response_required event with no utterance never invokes
\* the engine and adds nothing to messages; when the agent is initialized as
\* the handler reaches the utterance (on arrival, or when the wait ends) the
\* turn ends at once, sends nothing and changes no session variable; when the
\* agent is not initialized the turn is answered by the apology alone.
C20_EmptyTurn ==
  [][\A t \in Turns :
       /\ ~turn'[t].spoke
            => /\ ~turn'[t].invoked /\ turn'[t].pc # "invoke"
               /\ \A j \in DOMAIN messages' : messages'[j].turn # t
       /\ (turn[t].pc # "done" /\ turn'[t].pc = "done" /\ ~turn'[t].spoke)
            => IF agentInitialized
                 THEN /\ turn'[t].res = "empty"
                      /\ out' = out
                      /\ UNCHANGED sessionVars
                 ELSE /\ turn'[t].res \in NotReadyResults
                      /\ out' = Append(out, Payload("error", t, turn'[t].rid, Str(ApologyText)))
                      /\ UNCHANGED sessionVars]_vars

\* an empty event that waited for the agent and then ended in silence
C20_Witness ==
  \E t \in Turns :
    /\ turn[t].pc = "done" /\ turn[t].res = "empty" /\ turn[t].waited
    /\ ~turn[t].spoke /\ PayloadsOf(t) = {}

Latches == <<agentInitialized, agentInitializing, greetingSent, transferInProgress>>
OtherSessionVars ==
  <<agent, agentInitialized, agentInitializing, greetingSent, transferInProgress,
    emergencyDetected, emergencyReason, userPhoneNumber, transcriptsData,
    conversationState>>

\* C21 (Scenario D): the step that handles a payload JSON.parse rejects sends
\* exactly one payload, the apology with response_id 0 and no transfer_number,
\* after the payloads already sent, and changes no session variable; the
\* socket stays open and the turns in flight are left as they were.
C21_Malformed ==
  [][Malformed
       => /\ Len(out') = Len(out) + 1
          /\ SubSeq(out', 1, Len(out)) = out
          /\ LastOut'.response_type = "response" /\ LastOut'.response_id = 0
          /\ LastOut'.content = Str(ApologyText)
          /\ ~LastOut'.has_transfer /\ ~LastOut'.end_call
          /\ UNCHANGED <<sessionVars, turn, alerts, run>>
          /\ wsState' = "OPEN"]_vars

\* after the apology for the malformed payload a later turn was answered
C21_Witness ==
  \E i, j \in OutIdx :
    /\ i < j
    /\ out[i].kind = "error" /\ out[i].turn = 0 /\ out[i].response_id = 0
    /\ out[j].kind = "reply"
    /\ turn[out[j].turn].res = "reply"

\* C22 as stated: none of agentInitialized, agentInitializing, greetingSent
\* and transferInProgress ever goes from true to false.
C22_AllMonotonic ==
  [][/\ agentInitialized => agentInitialized'
     /\ agentInitializing => agentInitializing'
     /\ greetingSent => greetingSent'
     /\ transferInProgress => transferInProgress']_vars

\* C22 as amended: agentInitialized, greetingSent and transferInProgress never
\* go from true to false; agentInitializing, true while the initialization
\* runs, goes to false in the step that ends the run and never becomes true
\* again.
C22_Latches ==
  [][/\ agentInitialized => agentInitialized'
     /\ greetingSent => greetingSent'
     /\ transferInProgress => transferInProgress'
     /\ ~agentInitializing => ~agentInitializing'
     /\ (agentInitializing /\ ~agentInitializing') => (~RunEnded /\ RunEnded')]_vars

C22_Witness ==
  /\ agentInitialized /\ greetingSent /\ transferInProgress
  /\ ~agentInitializing
  /\ \E t \in Turns : turn[t].res = "holding"

\* C23: agentInitializing is true exactly while the initialization run is in
\* progress: it is false once the run has ended, by the success path, by the
\* fallback after a failure, or by an exception of the fallback.
C23_InitializingCleared ==
  agentInitializing <=> ~RunEnded

\* the fallback build threw and the flag is cleared
C23_Witness ==
  run.pc = "failed" /\ ~agentInitializing /\ ~agentInitialized

\* C24 as stated: once the agent of this session is built with the caller's
\* phone number bound to its tools, no step of another session changes the
\* phone number, call id or transcript ids those tools read.
C24_SessionIndependence ==
  [][(/\ agentInitialized /\ userPhoneNumber # "null"
      /\ toolContext.phoneNumber = userPhoneNumber)
       => UNCHANGED toolContext]_vars

\* C25 as stated: once the close handler has run, the session-end reporter has
\* been invoked exactly once.
C25_ReportOnClose ==
  closed => reports = 1

\* C26: a payload carries transfer_number exactly when sendDirectTransfer sent
\* it; the greeting, replies, holding replies, fallback replies, error replies
\* and the config acknowledgment carry none.
C26_TransferMarker ==
  \A i \in OutIdx :
    /\ out[i].kind \in {"greeting", "reply", "holding", "fallback", "error", "config", "transfer"}
    /\ out[i].has_transfer <=> out[i].kind = "transfer"
    /\ out[i].has_transfer <=> out[i].transfer_number # <<>>

C26_Witness ==
  /\ \E i \in OutIdx : out[i].kind = "transfer" /\ out[i].has_transfer
  /\ \E i \in OutIdx : out[i].kind = "holding"
  /\ \E i \in OutIdx : out[i].kind = "greeting"

\* C27: the step that handles a call_details event sends exactly one payload,
\* the config acknowledgment with auto_reconnect and call_details true, and
\* changes no session variable and no turn, whatever the state of the session.
C27_Handshake ==
  [][CallDetails
       => /\ Len(out') = Len(out) + 1
          /\ SubSeq(out', 1, Len(out)) = out
          /\ LastOut'.response_type = "config"
          /\ LastOut'.config = {"auto_reconnect", "call_details"}
          /\ ~LastOut'.has_transfer
          /\ UNCHANGED <<sessionVars, turn, alerts, run>>]_vars

\* the acknowledgment was sent while initialization was still running
C27_Witness ==
  /\ agentInitializing /\ ~agentInitialized
  /\ events = 1
  /\ Len(out) = 1 /\ out[1].response_type = "config"

\* C28: the step that handles an update_only or call_ended event sets
\* recordingUrl to the recording_url of the payload when it has one, whatever
\* was recorded before, and leaves it when it has none; it sends nothing and
\* changes no other session variable.
C28_RecordingCapture ==
  [][\A url \in SeqUrls :
       RecordingEvent(url)
         => /\ url # "none" => recordingUrl' = url
            /\ url = "none" => recordingUrl' = recordingUrl
            /\ out' = out
            /\ UNCHANGED <<OtherSessionVars, turn, alerts, run>>]_vars

\* a second reference replaced the first
C28_Witness ==
  /\ events = 2 /\ out = <<>>
  /\ recordingUrl = "https://recordings/2"

\* C29: the step that handles an event of an unknown interaction_type sends
\* nothing and changes no session variable and no turn.
C29_UnknownIgnored ==
  [][UnknownEvent => /\ out' = out
                     /\ UNCHANGED <<sessionVars, turn, alerts, run, wsState>>]_vars

C29_Witness ==
  /\ events = 1 /\ out = <<>> /\ recordingUrl = "null"
  /\ agentInitializing

C31_EngineWhenReady ==
  [][/\ agentInitialized' => agent' # 0
     /\ agentInitialized => agent' = agent /\ builds'.done = builds.done
     /\ \A t \in Turns :
          /\ (turn[t].pc # "invoke" /\ turn'[t].pc = "invoke")
               => agentInitialized /\ agent # 0
          /\ turn'[t].pc = "invoke" => agentInitialized' /\ agent' # 0
          /\ turn'[t].invoked => agentInitialized']_vars

\* the first build threw, the fallback built the agent, and a turn that had
\* waited for it used the engine
C31_Witness ==
  /\ builds.calls = 2 /\ builds.done = 1 /\ agent = 1 /\ agentInitialized
  /\ \E t \in Turns : turn[t].waited /\ turn[t].invoked /\ turn[t].res = "reply"

\* C32 as stated: a step in which a turn sends a transfer command is the
\* return of an engine invocation whose newly produced messages hold one that
\* starts with EMERGENCY_TRANSFER:, and the transfer number is the one of
\* such a message; the caller's utterances in the history decide nothing.
C32_EngineSignalOnly ==
  [][\A t \in Turns : \A new \in EngineOutputs(t) :
       (InvokeReturn(t, new) /\ Len(out') = Len(out) + 1 /\ LastOut'.has_transfer)
         => \E k \in SignalIndices(new) :
              LET n == Segment1(new[k].content.text)
              IN LastOut'.transfer_number \in {n, formatToE164(n)}]_vars

FallbackTurns == {t \in Turns : turn[t].res = "fallback"}

\* C33: once the transfer send of the turn that took the latch has failed
\* (that turn spoke the fallback reply), transferInProgress is and stays true
\* and no transfer command is or will be on the wire; every engine result that
\* returns afterwards with a transfer signal is answered by exactly one
\* payload, the holding reply without transfer_number, and changes neither the
\* latch, the emergency record, the history nor the alerts.
C33_FailedTransferLatch ==
  [][/\ FallbackTurns' # {}
          => /\ transferInProgress'
             /\ TransferCommands' = {}
             /\ Cardinality(FallbackTurns') = 1
     /\ FallbackTurns # {}
          => /\ FallbackTurns' = FallbackTurns
             /\ \A t \in Turns : \A new \in EngineOutputs(t) :
                  (InvokeReturn(t, new) /\ FirstSignal(turn[t].snap \o new) > 0)
                    => /\ turn'[t].res = "holding"
                       /\ out' = Append(out, Payload("holding", t, turn[t].rid, Str(HoldingText)))
                       /\ ~LastOut'.has_transfer /\ LastOut'.transfer_number = <<>>
                       /\ alerts' = alerts
                       /\ UNCHANGED sessionVars]_vars

\* the socket closed with two turns in the engine; the first result carried a
\* signal and got the fallback reply, the second one the holding reply
C33_Witness ==
  /\ closed /\ transferInProgress /\ TransferCommands = {}
  /\ \E t, q \in Turns :
       /\ turn[t].res = "fallback" /\ turn[q].res = "holding"
       /\ \E i \in PayloadsOf(t), j \in PayloadsOf(q) :
            i < j /\ out[i].kind = "fallback" /\ out[j].kind = "holding"

\* C34: at most one alert is started in a session; a step starts an alert only
\* when a turn takes the transfer latch in it with a reason other than
\* human_agent_requested, and the alert is that turn's; with the latch already
\* taken, the return of an engine result, whatever signal it carries, starts
\* no alert and leaves emergencyDetected and emergencyReason as they were.
C34_AlertAtMostOnce ==
  [][/\ Len(alerts') <= 1
     /\ Len(alerts') > Len(alerts)
          => \E t \in Turns :
               /\ TakesLatch(t)
               /\ LastAlert'.turn = t
               /\ \A new \in EngineOutputs(t) :
                    InvokeReturn(t, new)
                      => LET ms == turn[t].snap \o new
                         IN ReasonOf(ms[FirstSignal(ms)].content.text) # <<"human_agent_requested">>
     /\ transferInProgress
          => /\ Len(alerts') = Len(alerts)
             /\ UNCHANGED <<emergencyDetected, emergencyReason>>]_vars

\* a human-agent transfer was sent without an alert; the next turn, whose
\* history held a signal with the reason fire, was held and started none
C34_Witness ==
  /\ turn[1].res = "transfer" /\ turn[2].res = "holding"
  /\ alerts = <<>> /\ ~emergencyDetected
  /\ \E j \in DOMAIN messages : messages[j] = HumanMessage(Str(SignalUtterance), 2)
  /\ \E i \in PayloadsOf(1), j \in PayloadsOf(2) : i < j /\ out[i].has_transfer

GreetingTexts == {Str(generateFirstMessage(n)) : n \in 0..MaxVideos + 1}
GreetingsIn(ms) == {j \in DOMAIN ms : ms[j].role = "ai" /\ ms[j].turn = 0}

\* C35: messages is non-empty exactly when greetingSent is true; its first
\* element is then the greeting, an ai message with the text sent in the
\* greeting payload, and no other element is a greeting; every user utterance
\* stands after it, and a step that appends a user utterance leaves
\* greetingSent true.
C35_GreetingHeads ==
  [][/\ (messages' # <<>>) <=> greetingSent'
     /\ messages' # <<>>
          => /\ messages'[1].role = "ai"
             /\ messages'[1].content \in GreetingTexts
             /\ GreetingsIn(messages') = {1}
             /\ \E i \in Greetings' : out'[i].content = messages'[1].content
     /\ \A j \in DOMAIN messages' :
          (messages'[j].role = "human") => j > 1 /\ greetingSent'
     /\ (Len(messages') > Len(messages) /\ messages'[Len(messages')].role = "human")
          => greetingSent /\ messages # <<>>]_vars

\* a turn that arrived during initialization: greeting, its utterance, its reply
C35_Witness ==
  /\ Len(messages) = 3
  /\ messages[1].turn = 0 /\ messages[1].role = "ai"
  /\ messages[2].role = "human" /\ messages[3].role = "ai"
  /\ turn[messages[2].turn].waited
  /\ transcriptsData = Transcripts(1)

\* C36 as stated: once the close handler has run, no step hands a payload to
\* the socket and no step changes a session variable, also when the
\* initialization run or an engine invocation completes after the close.
C36_QuiescentAfterClose ==
  [][closed => out' = out /\ UNCHANGED sessionVars]_vars

SpokenBy(t, kinds) == {out[i].content : i \in {k \in PayloadsOf(t) : out[k].kind \in kinds}}
Marked(c) == Str(JsToString(c) \o CallTransferredMark)
AiOf(t) == {j \in DOMAIN messages : messages[j].role = "ai" /\ messages[j].turn = t}

\* C37: every element of messages is the greeting, a user utterance, or the
\* one text its turn spoke: the final reply as sent, the final text of a
\* transfer command with the [CALL TRANSFERRED] marker, or the fallback reply
\* as sent; no element has the role tool; a turn answered by the holding
\* reply or by an error reply has no ai element, and neither text is in
\* messages.
C37_OnlyConversation ==
  /\ \A j \in DOMAIN messages :
       LET m == messages[j]
       IN /\ m.role \in {"ai", "human"}
          /\ m.role = "human"
               => m.turn \in Turns /\ m.content.isString
                  /\ m.content.text \in Utterances \ {<<>>}
          /\ m.role = "ai"
               => \/ m.turn = 0 /\ j = 1 /\ m.content \in SpokenBy(0, {"greeting"})
                  \/ /\ m.turn \in Turns
                     /\ \/ m.content \in SpokenBy(m.turn, {"reply", "fallback"})
                        \/ \E c \in SpokenBy(m.turn, {"transfer"}) : m.content = Marked(c)
          /\ m.content \notin {Str(HoldingText), Str(ApologyText)}
  /\ \A t \in Turns :
       /\ Cardinality(AiOf(t)) <= 1
       /\ turn[t].res \in {"holding", "error", "timeout", "notInitialized", "empty"}
            => AiOf(t) = {}
       /\ turn[t].res \in {"reply", "replyThenError", "transfer", "fallback"}
            => Cardinality(AiOf(t)) = 1

\* a transfer whose signal came in a tool result, then a held turn: the history
\* is greeting, utterance, marked final text, utterance
C37_Witness ==
  /\ Len(messages) = 4
  /\ turn[1].res = "transfer" /\ turn[2].res = "holding"
  /\ messages[3] = AIMessage(Str(FinalText \o CallTransferredMark), 1)
  /\ messages[4].role = "human" /\ messages[4].turn = 2
  /\ messages[4].content = Str(PlainUtterance)

\* C38 as stated: whenever the return of an engine result sends a transfer
\* command, its transfer_number satisfies validateE164, whatever the number
\* segment of the decoded signal was (empty and undefined included), and it
\* is that segment unchanged when the segment satisfies validateE164.
C38_ValidatedNumber ==
  [][\A t \in Turns : \A new \in NumberOutputs(t) :
       (InvokeReturn(t, new) /\ Len(out') = Len(out) + 1 /\ LastOut'.has_transfer)
         => LET ms == turn[t].snap \o new
                n == Segment1(ms[FirstSignal(ms)].content.text)
            IN /\ validateE164(LastOut'.transfer_number)
               /\ validateE164(n) => LastOut'.transfer_number = n]_vars
====
